---------------------------- MODULE Spec2Model ----------------------------
(***************************************************************************)
(* A model of the ADS-B repository's two pipelines:                        *)
(*   - the snapshot harvester of adsb_exchange.py (filename generator,     *)
(*     downloader, decompressor/parser, region filter, writer, main loop); *)
(*   - the retrieval chat tool of main.py and src/embed_store.py (the      *)
(*     three-file vector store, its queries, and main's start-up).         *)
(* A value that may be None is a sequence of length at most one: None is   *)
(* <<>> and a value x is <<x>>.  Byte strings are sequences of integers    *)
(* 0..255; text strings are TLA+ strings; a Python list is a sequence      *)
(* whose Python position i is position i+1 here.                           *)
(***************************************************************************)
EXTENDS Integers, Sequences, FiniteSets, TLC

VARIABLES
    gN,          \* generate_filenames: the argument num_files
    gOut,        \* generate_filenames: the returned list, None before the call
    fIn,         \* filter_by_region: the argument states
    fOut,        \* filter_by_region: the returned list, None before the call
    hPc,         \* harvester main: "start", "loop", "summary" or "crashed"
    hFiles,      \* harvester main: the list filenames
    hIdx,        \* harvester main: the number of loop iterations completed
    fetched,     \* harvester: the filenames handed to requests.get, in order
    successful,  \* harvester main: the counter successful
    failed,      \* harvester main: the counter failed
    written,     \* harvester: the number of output files process_and_save opened
    last,        \* harvester: what the last iteration did (download and processing)
    fs,          \* vector-store directory: file name -> content, None when missing
    index,       \* EmbeddingStore.index
    documents,   \* EmbeddingStore.documents
    op,          \* the last EmbeddingStore operation, with its arguments and outcome
    lastSave,    \* the arguments of the last completed save_store, None before one
    pc,          \* chat tool main: the position in main
    env,         \* chat tool: the process environment's GROQ_API_KEY, None when unset
    dotenv,      \* chat tool: the .env file's GROQ_API_KEY, None when unset
    dataFile,    \* chat tool: data/adsb_synthetic.json, None when missing
    apiKey,      \* chat tool: main's groq_api_key, None before it is set
    calls,       \* chat tool: the calls main has made, in order
    exitStatus   \* chat tool: the process's exit status, None while running

genVars == <<gN, gOut>>
filterVars == <<fIn, fOut>>
harvestVars == <<hPc, hFiles, hIdx, fetched, successful, failed, written, last>>
storeVars == <<fs, index, documents, op, lastSave>>
chatVars == <<pc, env, dotenv, dataFile, apiKey, calls, exitStatus>>
vars == <<genVars, filterVars, harvestVars, storeVars, chatVars>>

None == <<>>
Some(x) == <<x>>
Val(o) == o[1]

Min(a, b) == IF a <= b THEN a ELSE b

Range(s) == {s[i] : i \in 1..Len(s)}

\* The sequences over S of length lo..hi.
SeqsBetween(S, lo, hi) == UNION {[1..n -> S] : n \in lo..hi}

-----------------------------------------------------------------------------
(* The filename generator.                                                 *)

MaxSmallN == 60
MaxNearWrap == 2

SecondsPerDay == 24 * 60 * 60

\* "%02d" of a number below 100, as strftime pads %H, %M and %S.
Pad2(n) == IF n < 10 THEN "0" \o ToString(n) ELSE ToString(n)

\* start_time: datetime.strptime("000000", "%H%M%S") is 1900-01-01 00:00:00;
\* a datetime is the number of seconds since then.
start_time == 0

\* (dt).strftime("%H%M%SZ"): the time of day of dt; the date is not printed.
strftime_HMSZ(dt) ==
    LET tod == dt % SecondsPerDay
    IN  Pad2(tod \div 3600) \o Pad2((tod \div 60) % 60) \o Pad2(tod % 60) \o "Z"

\* The loop body with the step of the timedelta doubled: a slip in the cadence.
filename_at_10s(i) == strftime_HMSZ(start_time + i * 10) \o ".json.gz"

\* One loop iteration: the name appended for loop index i (from 0).
filename_at(i) == strftime_HMSZ(start_time + i * 5) \o ".json.gz"

generate_filenames(num_files) == [k \in 1..num_files |-> filename_at(k - 1)]


\* The largest count whose names all fall within one day.
NamesPerDay == SecondsPerDay \div 5

GenInputs == (0..MaxSmallN) \cup ((NamesPerDay - MaxNearWrap)..(NamesPerDay + MaxNearWrap))

GenIdle == gN = 0 /\ gOut = None

GenInit == gN \in GenInputs /\ gOut = None

\* The call generate_filenames(gN).
Generate ==
    /\ gOut = None
    /\ gOut' = Some(generate_filenames(gN))
    /\ UNCHANGED <<gN, filterVars, harvestVars, storeVars, chatVars>>

DigitChars == {ToString(d) : d \in 0..9}

DigitOf(c) == CHOOSE d \in 0..9 : ToString(d) = c

\* The number written in characters p and p+1 of name f.
TwoDigits(f, p) == 10 * DigitOf(SubSeq(f, p, p)) + DigitOf(SubSeq(f, p + 1, p + 1))

\* HHMMSSZ.json.gz, HHMMSS a time of day.
WellFormedName(f) ==
    /\ Len(f) = 15
    /\ \A p \in 1..6 : SubSeq(f, p, p) \in DigitChars
    /\ SubSeq(f, 7, 15) = "Z.json.gz"
    /\ TwoDigits(f, 1) < 24 /\ TwoDigits(f, 3) < 60 /\ TwoDigits(f, 5) < 60

\* The time of day a well-formed name states, in seconds.
NameTime(f) == 3600 * TwoDigits(f, 1) + 60 * TwoDigits(f, 3) + TwoDigits(f, 5)

FilenamesContract(n, out) ==
    /\ Len(out) = n
    /\ Cardinality(Range(out)) = n
    /\ \A i \in 1..Len(out) : WellFormedName(out[i])
    /\ Len(out) > 0 => out[1] = "000000Z.json.gz"
    /\ \A i \in 1..(Len(out) - 1) : NameTime(out[i + 1]) = NameTime(out[i]) + 5

\* C1 as stated: for every N, wrap-around past 24 hours included, generate_filenames(N)
\* returns N pairwise distinct well-formed names, starting at 000000Z, each 5 seconds
\* after the one before it (so strictly increasing in time).
C1_AnyCount == gOut # None => FilenamesContract(gN, Val(gOut))

\* C1 amended: the same contract for every N up to the 17280 names of one day.
C1_WithinOneDay ==
    (gOut # None /\ gN <= NamesPerDay) => FilenamesContract(gN, Val(gOut))

\* C1's case: the generator has produced the full day of names.
C1_Witness == gOut # None /\ gN = NamesPerDay /\ Len(Val(gOut)) = NamesPerDay

-----------------------------------------------------------------------------
(* The region filter.                                                      *)

MaxStates == 3

REGION_BOUNDS == [lamin |-> 6, lamax |-> 36, lomin |-> 68, lomax |-> 98]

\* Coordinates in whole degrees: each bound, its outer neighbour, and None.
Lats == {None} \cup {Some(x) : x \in {REGION_BOUNDS.lamin - 1, REGION_BOUNDS.lamin,
                                      REGION_BOUNDS.lamax, REGION_BOUNDS.lamax + 1}}
Lons == {None} \cup {Some(x) : x \in {REGION_BOUNDS.lomin - 1, REGION_BOUNDS.lomin,
                                      REGION_BOUNDS.lomax, REGION_BOUNDS.lomax + 1}}

\* A state vector: Python's st[5] (longitude) is st[6] here, st[6] (latitude) is st[7].
StateVector(lon, lat) == <<"icao", "call", "country", 0, 0, lon, lat>>

StateVectors == {StateVector(lon, lat) : lon \in Lons, lat \in Lats}

RECURSIVE filter_lon_only(_, _)
\* The filter with the latitude test forgotten.
filter_lon_only(states, bounds) ==
    IF states = <<>> THEN <<>>
    ELSE LET st == Head(states)
             rest == filter_lon_only(Tail(states), bounds)
         IN  IF st[7] = None \/ st[6] = None THEN rest
             ELSE IF bounds.lomin <= Val(st[6]) /\ Val(st[6]) <= bounds.lomax
                  THEN <<st>> \o rest
                  ELSE rest

RECURSIVE filter_by_region(_, _)
filter_by_region(states, bounds) ==
    IF states = <<>> THEN <<>>
    ELSE LET st == Head(states)
             rest == filter_by_region(Tail(states), bounds)
         IN  IF st[7] = None \/ st[6] = None THEN rest
             ELSE IF /\ bounds.lamin <= Val(st[7]) /\ Val(st[7]) <= bounds.lamax
                     /\ bounds.lomin <= Val(st[6]) /\ Val(st[6]) <= bounds.lomax
                  THEN <<st>> \o rest
                  ELSE rest

FilterIdle == fIn = <<>> /\ fOut = None

FilterInit == fIn \in SeqsBetween(StateVectors, 0, MaxStates) /\ fOut = None

\* The call filter_by_region(fIn, REGION_BOUNDS).
Filter ==
    /\ fOut = None
    /\ fOut' = Some(filter_by_region(fIn, REGION_BOUNDS))
    /\ UNCHANGED <<fIn, genVars, harvestVars, storeVars, chatVars>>

\* The entry's coordinates are both present and inside the closed box.
InBox(st, bounds) ==
    /\ st[6] # None /\ st[7] # None
    /\ bounds.lamin <= Val(st[7]) /\ Val(st[7]) <= bounds.lamax
    /\ bounds.lomin <= Val(st[6]) /\ Val(st[6]) <= bounds.lomax

\* The positions from i on of the entries of s inside the box, ascending.
RECURSIVE KeptPositions(_, _, _)
KeptPositions(s, i, bounds) ==
    IF i > Len(s) THEN <<>>
    ELSE (IF InBox(s[i], bounds) THEN <<i>> ELSE <<>>) \o KeptPositions(s, i + 1, bounds)

\* C2: the result is exactly the entries inside the closed box, unchanged and in
\* their original order; an entry with a None coordinate is never in it.
C2_FilterKeepsExactlyInBox ==
    fOut # None =>
        LET kept == KeptPositions(fIn, 1, REGION_BOUNDS)
            out == Val(fOut)
        IN  /\ Len(out) = Len(kept)
            /\ \A j \in 1..Len(kept) : out[j] = fIn[kept[j]]
            /\ \A j \in 1..Len(out) : out[j][6] # None /\ out[j][7] # None

\* C2's case: of three entries, one inside, one outside and one without a
\* longitude, exactly the first is kept.
C2_Witness ==
    /\ fOut # None
    /\ Len(fIn) = 3
    /\ InBox(fIn[1], REGION_BOUNDS)
    /\ fIn[2][6] = Some(REGION_BOUNDS.lomin - 1)
    /\ fIn[2][7] = Some(REGION_BOUNDS.lamax + 1)
    /\ fIn[3][6] = None /\ fIn[3][7] = Some(REGION_BOUNDS.lamin)
    /\ fOut = Some(<<fIn[1]>>)

-----------------------------------------------------------------------------
(* The harvester: downloader, decompressor/parser/writer, main loop.       *)

MaxFiles == 3

OUT_DIR == "./adsb_data"

\* The non-empty bodies a response may carry, of the bytes 0x1f, 0x8b and "{":
\* plain text, one magic byte alone, the first magic byte then another byte,
\* the magic bytes swapped, the magic bytes alone, and the magic bytes with
\* more after them.
Contents ==
    {<<123>>, <<31>>, <<31, 123>>, <<139, 31>>, <<31, 139>>, <<31, 139, 123>>}

\* What requests.get(url, timeout=30) does: a response with a status code and a
\* body, or one of the exceptions the downloader tells apart.
NetOutcomes ==
    {[kind |-> "response", status |-> 404, body |-> <<>>],
     [kind |-> "response", status |-> 200, body |-> <<>>]}
    \cup {[kind |-> "response", status |-> 200, body |-> c] : c \in Contents}
    \cup {[kind |-> k, status |-> 0, body |-> <<>>] :
             k \in {"Timeout", "ConnectionError", "RuntimeError"}}

\* download_file(filename) when requests.get does net: the value returned, the
\* line printed, and the exception that leaves the function ("none": none does).
download_file(filename, net) ==
    IF net.kind = "response"
    THEN IF net.status # 200
         THEN [ret |-> None, log |-> "http_status", raised |-> "none"]
         ELSE IF net.body = <<>>
              THEN [ret |-> None, log |-> "empty_response", raised |-> "none"]
              ELSE [ret |-> Some(net.body), log |-> "downloaded", raised |-> "none"]
    ELSE IF net.kind = "Timeout"
         THEN [ret |-> None, log |-> "timeout", raised |-> "none"]
         ELSE IF net.kind = "ConnectionError"
              THEN [ret |-> None, log |-> "connection_error", raised |-> "none"]
              ELSE [ret |-> None, log |-> "download_error", raised |-> "none"]

GZIP_MAGIC == <<31, 139>>

\* The magic-byte test looking at the first byte only.
is_gzipped_first_byte(content) == Len(content) >= 1 /\ content[1] = GZIP_MAGIC[1]

\* content.startswith(b'\x1f\x8b')
is_gzipped(content) ==
    Len(content) >= Len(GZIP_MAGIC) /\ SubSeq(content, 1, Len(GZIP_MAGIC)) = GZIP_MAGIC

\* What gzip.decompress(content) does: the decompressed data, BadGzipFile, or
\* another exception (EOFError on a truncated stream).
GzipOutcomes ==
    {[kind |-> "ok", data |-> <<123>>]}
    \cup {[kind |-> k, data |-> <<>>] : k \in {"BadGzipFile", "EOFError"}}

\* What gzip.decompress may do with content: it is called only on a content
\* that is_gzipped accepts.
GzipOutcomesFor(content) ==
    IF is_gzipped(content) THEN GzipOutcomes
    ELSE {[kind |-> "not_called", data |-> <<>>]}

\* The states lists a parsed snapshot may carry: none, the three-entry example
\* (inside, outside, no longitude), and an entry too short to have index 6.
SampleStates ==
    {<<>>,
     <<StateVector(Some(REGION_BOUNDS.lomin), Some(REGION_BOUNDS.lamax)),
       StateVector(Some(REGION_BOUNDS.lomin - 1), Some(REGION_BOUNDS.lamax + 1)),
       StateVector(None, Some(REGION_BOUNDS.lamin))>>,
     << <<"icao">> >>}

\* What json.loads(data) does: JSONDecodeError, UnicodeDecodeError on bytes
\* that are no text, or the parsed value: a dict with or without a "states"
\* key, a list, or a number.
JsonOutcomes ==
    {[kind |-> k, has_states |-> FALSE, states |-> <<>>] :
        k \in {"JSONDecodeError", "UnicodeDecodeError", "dict", "list", "int"}}
    \cup {[kind |-> "dict", has_states |-> TRUE, states |-> st] : st \in SampleStates}

\* What os.makedirs and open(out_path, "w") do.
WriteOutcomes == {"ok", "OSError"}

RECURSIVE replace_gz(_)
\* filename.replace(".gz", ""): every occurrence of ".gz" removed.
replace_gz(s) ==
    IF Len(s) < 3 THEN s
    ELSE IF SubSeq(s, 1, 3) = ".gz"
         THEN replace_gz(SubSeq(s, 4, Len(s)))
         ELSE SubSeq(s, 1, 1) \o replace_gz(SubSeq(s, 2, Len(s)))

\* os.path.join(OUT_DIR, name)
out_path_of(filename) == OUT_DIR \o "/" \o replace_gz(filename)

\* The outcome record of process_and_save.
ProcResult(tried, input, wrote, path, saved, log, raised) ==
    [decompress_tried |-> tried, json_input |-> input, wrote |-> wrote,
     out_path |-> path, saved |-> saved, log |-> log, raised |-> raised]

\* Lines 100-115 of process_and_save, from json.loads(data) on, without the
\* handlers: exc is the exception raised ("none": none).
parse_filter_save(data, filename, tried, js, wr) ==
    IF js.kind \in {"JSONDecodeError", "UnicodeDecodeError"}
    THEN [res |-> ProcResult(tried, Some(data), FALSE, None, None, "none", "none"),
          exc |-> js.kind]
    ELSE IF js.kind = "int"
    THEN \* "states" in parsed: a number is not iterable
         [res |-> ProcResult(tried, Some(data), FALSE, None, None, "none", "none"),
          exc |-> "TypeError"]
    ELSE IF js.has_states /\ \E i \in 1..Len(js.states) : Len(js.states[i]) < 7
    THEN \* st[6] of an entry too short
         [res |-> ProcResult(tried, Some(data), FALSE, None, None, "none", "none"),
          exc |-> "IndexError"]
    ELSE IF wr # "ok"
    THEN [res |-> ProcResult(tried, Some(data), FALSE, None, None, "none", "none"),
          exc |-> wr]
    ELSE LET saved == IF js.has_states
                      THEN Some(filter_by_region(js.states, REGION_BOUNDS))
                      ELSE None
             res == ProcResult(tried, Some(data), TRUE, Some(out_path_of(filename)),
                               saved, "saved", "none")
         IN  IF js.kind = "list"
             THEN \* parsed.get of the last print: a list has no get
                  [res |-> res, exc |-> "AttributeError"]
             ELSE [res |-> res, exc |-> "none"]

\* The two handlers of process_and_save's outer try: JSONDecodeError, then
\* Exception, which every exception of the body is.
handle_process_errors(r) ==
    IF r.exc = "none" THEN r.res
    ELSE IF r.exc = "JSONDecodeError" THEN [r.res EXCEPT !.log = "invalid_json"]
    ELSE [r.res EXCEPT !.log = "failed_to_process"]

\* The outer try with only its JSONDecodeError handler.
handle_json_errors_only(r) ==
    IF r.exc = "none" THEN r.res
    ELSE IF r.exc = "JSONDecodeError" THEN [r.res EXCEPT !.log = "invalid_json"]
    ELSE [r.res EXCEPT !.raised = r.exc]

\* process_and_save with the handler except Exception left out.
process_and_save_no_catch_all(content, filename, gz, js, wr) ==
    IF is_gzipped(content)
    THEN IF gz.kind = "BadGzipFile"
         THEN ProcResult(TRUE, None, FALSE, None, None, "corrupt_gzip", "none")
         ELSE IF gz.kind # "ok"
              THEN ProcResult(TRUE, None, FALSE, None, None, "none", gz.kind)
              ELSE handle_json_errors_only(
                       parse_filter_save(gz.data, filename, TRUE, js, wr))
    ELSE handle_json_errors_only(parse_filter_save(content, filename, FALSE, js, wr))

\* process_and_save(content, filename) when gzip.decompress does gz, json.loads
\* does js and opening the output file does wr.
process_and_save(content, filename, gz, js, wr) ==
    IF is_gzipped(content)
    THEN IF gz.kind = "BadGzipFile"
         THEN ProcResult(TRUE, None, FALSE, None, None, "corrupt_gzip", "none")
         ELSE IF gz.kind # "ok"
              THEN ProcResult(TRUE, None, FALSE, None, None, "failed_to_process", "none")
              ELSE handle_process_errors(
                       parse_filter_save(gz.data, filename, TRUE, js, wr))
    ELSE handle_process_errors(parse_filter_save(content, filename, FALSE, js, wr))

\* "if content:" of main: neither None nor empty.
Truthy(content) == content # None /\ Val(content) # <<>>

\* The outcome record of an iteration that never called process_and_save.
NotProcessed == ProcResult(FALSE, None, FALSE, None, None, "none", "none")

\* The two branches of main's loop with the success counted only when an
\* output file was written.
tally_saved_only(content, proc, s, f) ==
    IF Truthy(content) /\ proc.wrote THEN <<s + 1, f>> ELSE <<s, f + 1>>

\* The two branches of main's loop: the new values of successful and failed.
tally(content, proc, s, f) ==
    IF Truthy(content) THEN <<s + 1, f>> ELSE <<s, f + 1>>

NoLast == [fname |-> "", content |-> None, dlog |-> "none", proc |-> NotProcessed]

HarvestIdle ==
    /\ hPc = "idle" /\ hFiles = <<>> /\ hIdx = 0 /\ fetched = <<>>
    /\ successful = 0 /\ failed = 0 /\ written = 0 /\ last = NoLast

HarvestInit ==
    /\ hPc = "start" /\ hFiles = <<>> /\ hIdx = 0 /\ fetched = <<>>
    /\ successful = 0 /\ failed = 0 /\ written = 0 /\ last = NoLast

\* main up to the loop, NUM_FILES being n.
HarvestStart(n) ==
    /\ hPc = "start"
    /\ hFiles' = generate_filenames(n)
    /\ hPc' = "loop"
    /\ UNCHANGED <<hIdx, fetched, successful, failed, written, last>>
    /\ UNCHANGED <<genVars, filterVars, storeVars, chatVars>>

\* One iteration of main's loop whose download is d and whose processing, if
\* any, is p.
IterationEnds(fname, d, p) ==
    /\ fetched' = Append(fetched, fname)
    /\ last' = [fname |-> fname, content |-> d.ret, dlog |-> d.log, proc |-> p]
    /\ written' = written + (IF p.wrote THEN 1 ELSE 0)
    /\ IF d.raised # "none" \/ p.raised # "none"
       THEN /\ hPc' = "crashed"
            /\ UNCHANGED <<hIdx, successful, failed>>
       ELSE /\ hPc' = hPc
            /\ hIdx' = hIdx + 1
            /\ successful' = tally(d.ret, p, successful, failed)[1]
            /\ failed' = tally(d.ret, p, successful, failed)[2]
    /\ UNCHANGED <<hFiles, genVars, filterVars, storeVars, chatVars>>

\* One iteration of main's loop, for the next filename.
HarvestIterate ==
    /\ hPc = "loop"
    /\ hIdx < Len(hFiles)
    /\ \E net \in NetOutcomes :
         LET fname == hFiles[hIdx + 1]
             d == download_file(fname, net)
         IN  IF d.raised = "none" /\ Truthy(d.ret)
             THEN \E gz \in GzipOutcomesFor(Val(d.ret)), js \in JsonOutcomes,
                     wr \in WriteOutcomes :
                      IterationEnds(fname, d,
                                    process_and_save(Val(d.ret), fname, gz, js, wr))
             ELSE IterationEnds(fname, d, NotProcessed)

\* The loop is over: main prints the summary.
HarvestSummary ==
    /\ hPc = "loop"
    /\ hIdx = Len(hFiles)
    /\ hPc' = "summary"
    /\ UNCHANGED <<hFiles, hIdx, fetched, successful, failed, written, last>>
    /\ UNCHANGED <<genVars, filterVars, storeVars, chatVars>>

-----------------------------------------------------------------------------
(* The embedding store: three files, save, load, query.                    *)

MaxDocs == 2
MaxK == 3

\* Flight records, by flight id, and the text preprocess_adsb_data renders.
Records == {"AA1000", "UA2000"}

render(record) == "Flight ID: " \o record

\* preprocess_adsb_data(records): one document per record, in order.
preprocess_adsb_data(records) == [i \in 1..Len(records) |-> render(records[i])]

Docs == {render(r) : r \in Records}

\* The sentence-embedding model, one dimension wide: equal texts get equal
\* vectors.
Encode(doc) == IF doc = render("AA1000") THEN 0 ELSE 2

\* The vectors a query text may embed to: on a stored vector, or between two.
QueryVecs == {0, 1}

\* A numpy array: ndim, and its rows when ndim is 2.
Matrix(rows) == [ndim |-> 2, rows |-> rows]

\* create_embeddings(documents): model.encode gives one row per document, and
\* a one-dimensional empty array for no documents.
create_embeddings(docs) ==
    IF docs = <<>> THEN [ndim |-> 1, rows |-> <<>>]
    ELSE Matrix([i \in 1..Len(docs) |-> Encode(docs[i])])

\* The faiss index: the vectors added, in order; ntotal is their number.
ntotal(idx) == Len(idx)

\* build_index(embeddings): embeddings.shape[1] needs two dimensions.
build_index(embeddings) ==
    IF embeddings.ndim < 2
    THEN [index |-> <<>>, raised |-> "IndexError"]
    ELSE [index |-> embeddings.rows, raised |-> "none"]

Files == {"faiss_index", "documents.pkl", "embeddings.npy"}

\* The store directory after a completed save of (docs, embeddings).
StoredFiles(docs, embeddings) ==
    [f \in Files |->
        IF f = "faiss_index" THEN Some(embeddings.rows)
        ELSE IF f = "documents.pkl" THEN Some(docs)
        ELSE Some(embeddings)]

\* save_store that leaves an existing documents.pkl as it is.
save_store_keeps_old_documents(st, docs, embeddings) ==
    LET built == build_index(embeddings)
    IN  IF built.raised # "none"
        THEN [fs |-> st.fs, index |-> st.index, documents |-> st.documents,
              writes |-> {}, raised |-> built.raised]
        ELSE [fs |-> [f \in Files |->
                         IF f = "documents.pkl" /\ st.fs[f] # None THEN st.fs[f]
                         ELSE StoredFiles(docs, embeddings)[f]],
              index |-> Some(built.index),
              documents |-> Some(docs),
              writes |-> Files,
              raised |-> "none"]

\* save_store(documents, embeddings) on the store st = [fs, index, documents].
save_store(st, docs, embeddings) ==
    LET built == build_index(embeddings)
    IN  IF built.raised # "none"
        THEN [fs |-> st.fs, index |-> st.index, documents |-> st.documents,
              writes |-> {}, raised |-> built.raised]
        ELSE [fs |-> StoredFiles(docs, embeddings),
              index |-> Some(built.index),
              documents |-> Some(docs),
              writes |-> Files,
              raised |-> "none"]

\* load_store testing any(os.path.exists(p) ...) where the code tests all: it
\* goes on to read what exists; opening a missing file raises.
load_store_any(st) ==
    IF \A f \in Files : st.fs[f] = None
    THEN [index |-> st.index, documents |-> st.documents,
          ret |-> <<None, None, None>>, reads |-> {}, raised |-> "none"]
    ELSE IF st.fs["faiss_index"] = None
    THEN [index |-> st.index, documents |-> st.documents,
          ret |-> <<None, None, None>>, reads |-> {}, raised |-> "RuntimeError"]
    ELSE IF st.fs["documents.pkl"] = None
    THEN [index |-> st.fs["faiss_index"], documents |-> st.documents,
          ret |-> <<None, None, None>>, reads |-> {"faiss_index"},
          raised |-> "FileNotFoundError"]
    ELSE IF st.fs["embeddings.npy"] = None
    THEN [index |-> st.fs["faiss_index"], documents |-> st.fs["documents.pkl"],
          ret |-> <<None, None, None>>, reads |-> {"faiss_index", "documents.pkl"},
          raised |-> "FileNotFoundError"]
    ELSE [index |-> st.fs["faiss_index"], documents |-> st.fs["documents.pkl"],
          ret |-> <<st.fs["faiss_index"], st.fs["documents.pkl"],
                    st.fs["embeddings.npy"]>>,
          reads |-> Files, raised |-> "none"]

\* load_store() on the store st: the new index and documents, the tuple
\* returned, and the files read.
load_store(st) ==
    IF ~ \A f \in Files : st.fs[f] # None
    THEN [index |-> st.index, documents |-> st.documents,
          ret |-> <<None, None, None>>, reads |-> {}, raised |-> "none"]
    ELSE [index |-> st.fs["faiss_index"], documents |-> st.fs["documents.pkl"],
          ret |-> <<st.fs["faiss_index"], st.fs["documents.pkl"],
                    st.fs["embeddings.npy"]>>,
          reads |-> Files, raised |-> "none"]

\* The distance faiss reports for a result slot it could not fill.
FLT_MAX == 1000000

\* The label faiss reports for a result slot it could not fill.
NO_LABEL == -1

L2(a, b) == (a - b) * (a - b)

\* index.search(q, k) of a flat L2 index: the min(k, ntotal) nearest vectors by
\* ascending distance (equal distances in either order), their labels counted
\* from 0, then slots of NO_LABEL and FLT_MAX up to k.
SearchResults(idx, q, k) ==
    LET n == ntotal(idx)
        m == Min(k, n)
        dist(l) == L2(idx[l + 1], q)
        Nearest == {s \in [1..m -> 0..(n - 1)] :
                       /\ \A i, j \in 1..m : i < j => s[i] # s[j]
                       /\ \A i \in 1..(m - 1) : dist(s[i]) <= dist(s[i + 1])
                       /\ \A l \in 0..(n - 1) :
                            (\A i \in 1..m : s[i] # l) =>
                                \A i \in 1..m : dist(s[i]) <= dist(l)}
    IN  {[i \in 1..k |-> IF i <= m THEN [label |-> s[i], distance |-> dist(s[i])]
                         ELSE [label |-> NO_LABEL, distance |-> FLT_MAX]] :
            s \in Nearest}

\* Python's list[i]: a negative i counts from the end.
PyIndexable(list, i) == -Len(list) <= i /\ i < Len(list)
PyIndex(list, i) == IF i >= 0 THEN list[i + 1] ELSE list[Len(list) + i + 1]

RECURSIVE collect_results(_, _, _)
\* The loop of query_store over the slots from position i on: the pairs
\* appended, and the exception documents[idx] raises.
collect_results(docs, found, i) ==
    IF i > Len(found) THEN [pairs |-> <<>>, raised |-> "none"]
    ELSE IF found[i].label < Len(docs)
    THEN IF ~PyIndexable(docs, found[i].label)
         THEN [pairs |-> <<>>, raised |-> "IndexError"]
         ELSE LET rest == collect_results(docs, found, i + 1)
              IN  [pairs |-> << <<PyIndex(docs, found[i].label), found[i].distance>> >>
                             \o rest.pairs,
                   raised |-> rest.raised]
    ELSE collect_results(docs, found, i + 1)

\* query_store(query, k) on the store st, the search returning found.
query_store(st, found) ==
    LET r == collect_results(Val(st.documents), found, 1)
    IN  IF r.raised # "none"
        THEN [ret |-> None, raised |-> r.raised]
        ELSE [ret |-> Some(r.pairs), raised |-> "none"]

\* The document lists save_store is called with.
DocLists == SeqsBetween(Docs, 0, MaxDocs)

\* The embeddings save_store is called with for docs: those create_embeddings
\* makes of docs, or a matrix of any number of rows, whatever the documents.
MatricesFor(docs) ==
    {create_embeddings(docs)}
    \cup {Matrix(rows) : rows \in SeqsBetween({Encode(render("AA1000"))}, 0, MaxDocs)}

EmptyDir == [f \in Files |-> None]

Store == [fs |-> fs, index |-> index, documents |-> documents]

\* The record of the last operation on the store: its name, its arguments, and
\* its outcome.
OpRecord(name, args, out) == [name |-> name, args |-> args, out |-> out]

StoreIdle ==
    /\ fs = EmptyDir /\ index = None /\ documents = None /\ lastSave = None
    /\ op = OpRecord("none", <<>>, <<>>)

\* EmbeddingStore(): no index, no documents; the directory exists and is empty.
StoreInit == StoreIdle

\* The call save_store(docs, embeddings).
SaveStore(docs, embeddings) ==
    LET r == save_store(Store, docs, embeddings)
    IN  /\ fs' = r.fs
        /\ index' = r.index
        /\ documents' = r.documents
        /\ lastSave' = IF r.raised = "none"
                       THEN Some([documents |-> docs, embeddings |-> embeddings])
                       ELSE lastSave
        /\ op' = OpRecord("save_store", <<>>, [raised |-> r.raised])
        /\ UNCHANGED <<genVars, filterVars, harvestVars, chatVars>>

\* The call load_store().
LoadStore ==
    LET r == load_store(Store)
    IN  /\ index' = r.index
        /\ documents' = r.documents
        /\ op' = OpRecord("load_store", <<>>,
                           [ret |-> r.ret, reads |-> r.reads, raised |-> r.raised])
        /\ UNCHANGED <<fs, lastSave, genVars, filterVars, harvestVars, chatVars>>

\* The call query_store(query, k), the query embedding to q.  Without an index
\* self.index.search raises AttributeError.
QueryStore(q, k) ==
    /\ IF index = None
       THEN op' = OpRecord("query_store", <<q, k>>,
                           [ret |-> None, raised |-> "AttributeError", found |-> <<>>])
       ELSE \E found \in SearchResults(Val(index), q, k) :
                LET r == query_store(Store, found)
                IN  op' = OpRecord("query_store", <<q, k>>,
                                   [ret |-> r.ret, raised |-> r.raised, found |-> found])
    /\ UNCHANGED <<fs, index, documents, lastSave>>
    /\ UNCHANGED <<genVars, filterVars, harvestVars, chatVars>>

\* A file of the store directory is removed from outside the program.
RemoveFile(f) ==
    /\ fs[f] # None
    /\ fs' = [fs EXCEPT ![f] = None]
    /\ op' = OpRecord("remove", <<>>, <<>>)
    /\ UNCHANGED <<index, documents, lastSave>>
    /\ UNCHANGED <<genVars, filterVars, harvestVars, chatVars>>

-----------------------------------------------------------------------------
(* The chat tool's main.                                                   *)

MaxRecords == 2

\* generate_synthetic_adsb_data(500) of load_adsb_data.
SyntheticCount == 500

\* The values GROQ_API_KEY may have in the environment and in the .env file.
EnvKeys == {None, Some(""), Some("gsk_env")}
DotenvKeys == {None, Some(""), Some("gsk_file")}

\* load_dotenv() then os.getenv("GROQ_API_KEY"): a variable already in the
\* environment, empty or not, is kept; otherwise the .env file's value is set.
getenv_after_load_dotenv(e, d) == IF e # None THEN e ELSE d

\* setup_environment exiting only when the variable is unset, not when empty.
setup_environment_none_only(e, d) ==
    LET groq_api_key == getenv_after_load_dotenv(e, d)
    IN  IF groq_api_key = None
        THEN [ret |-> None, exit |-> Some(1)]
        ELSE [ret |-> groq_api_key, exit |-> None]

\* setup_environment(): the key returned, or the status of sys.exit.
setup_environment(e, d) ==
    LET groq_api_key == getenv_after_load_dotenv(e, d)
    IN  IF groq_api_key = None \/ Val(groq_api_key) = ""
        THEN [ret |-> None, exit |-> Some(1)]
        ELSE [ret |-> groq_api_key, exit |-> None]

\* generate_synthetic_adsb_data(n): n records, their random fields by seed.
generate_synthetic_adsb_data(n, seed) ==
    [i \in 1..n |-> IF (i + seed) % 2 = 0 THEN "AA1000" ELSE "UA2000"]

\* load_adsb_data(path): the records, and the data file afterwards.
load_adsb_data(file, seed) ==
    IF file = None
    THEN LET data == generate_synthetic_adsb_data(SyntheticCount, seed)
         IN  [data |-> data, file |-> Some(data)]
    ELSE [data |-> Val(file), file |-> file]

\* initialize_vectorstore with the creation branch left out.
initialize_vectorstore_no_create(dir, file, seed) ==
    LET loaded == load_store([fs |-> dir, index |-> None, documents |-> None])
    IN  [fs |-> dir, index |-> loaded.index, documents |-> loaded.documents,
         file |-> file, created |-> FALSE, writes |-> {},
         calls |-> <<"EmbeddingStore", "load_store">>, raised |-> "none"]

\* initialize_vectorstore() on the store directory dir and the data file: the
\* directory, the returned store's index and documents, and the data file
\* afterwards; whether the store was created; the exception that leaves it.
initialize_vectorstore(dir, file, seed) ==
    LET loaded == load_store([fs |-> dir, index |-> None, documents |-> None])
    IN  IF loaded.ret[1] # None
        THEN [fs |-> dir, index |-> loaded.index, documents |-> loaded.documents,
              file |-> file, created |-> FALSE, writes |-> {},
              calls |-> <<"EmbeddingStore", "load_store">>, raised |-> "none"]
        ELSE LET adsb_records == load_adsb_data(file, seed)
                 docs == preprocess_adsb_data(adsb_records.data)
                 embeddings == create_embeddings(docs)
                 saved == save_store([fs |-> dir, index |-> loaded.index,
                                      documents |-> loaded.documents],
                                     docs, embeddings)
             IN  [fs |-> saved.fs, index |-> saved.index,
                  documents |-> saved.documents, file |-> adsb_records.file,
                  created |-> TRUE, writes |-> saved.writes,
                  calls |-> <<"EmbeddingStore", "load_store", "load_adsb_data",
                              "preprocess_adsb_data", "create_embeddings",
                              "save_store">>,
                  raised |-> saved.raised]

\* The store directories main may find: the files of an earlier store, any of
\* them missing.
InitialDirs ==
    {[f \in Files |-> IF f \in present
                      THEN StoredFiles(d, create_embeddings(d))[f]
                      ELSE None] :
        d \in SeqsBetween(Docs, 1, MaxDocs), present \in SUBSET Files}

\* The data files main may find: missing, or a list of records.
InitialDataFiles == {None} \cup {Some(r) : r \in SeqsBetween(Records, 0, MaxRecords)}

ChatIdle ==
    /\ pc = "idle" /\ env = None /\ dotenv = None /\ dataFile = None
    /\ apiKey = None /\ calls = <<>> /\ exitStatus = None

ChatInit ==
    /\ pc = "start" /\ env \in EnvKeys /\ dotenv \in DotenvKeys
    /\ dataFile \in InitialDataFiles
    /\ apiKey = None /\ calls = <<>> /\ exitStatus = None
    /\ fs \in InitialDirs /\ index = None /\ documents = None /\ lastSave = None
    /\ op = OpRecord("none", <<>>, <<>>)

\* main: groq_api_key = setup_environment()
SetupEnvironment ==
    /\ pc = "start"
    /\ LET r == setup_environment(env, dotenv)
       IN  /\ calls' = Append(calls, "setup_environment")
           /\ apiKey' = r.ret
           /\ exitStatus' = r.exit
           /\ pc' = IF r.exit # None THEN "exited" ELSE "setup_done"
    /\ UNCHANGED <<env, dotenv, dataFile>>
    /\ UNCHANGED <<genVars, filterVars, harvestVars, storeVars>>

\* main: embedding_store = initialize_vectorstore()
InitializeVectorstore ==
    /\ pc = "setup_done"
    /\ \E seed \in {0, 1} :
         LET r == initialize_vectorstore(fs, dataFile, seed)
         IN  /\ fs' = r.fs
             /\ index' = r.index
             /\ documents' = r.documents
             /\ dataFile' = r.file
             /\ lastSave' = lastSave
             /\ op' = OpRecord("initialize_vectorstore", <<fs, dataFile>>,
                                [created |-> r.created, writes |-> r.writes,
                                 raised |-> r.raised])
             /\ calls' = calls \o <<"initialize_vectorstore">> \o r.calls
             /\ pc' = IF r.raised # "none" THEN "crashed" ELSE "vs_ready"
    /\ UNCHANGED <<env, dotenv, apiKey, exitStatus>>
    /\ UNCHANGED <<genVars, filterVars, harvestVars>>

\* One of main's later steps: from position from to position to, calling name.
MainStep(from, to, name) ==
    /\ pc = from
    /\ pc' = to
    /\ calls' = Append(calls, name)
    /\ UNCHANGED <<env, dotenv, dataFile, apiKey, exitStatus>>
    /\ UNCHANGED <<genVars, filterVars, harvestVars, storeVars>>

\* main: retriever = FlightRetriever(embedding_store)
CreateRetriever == MainStep("vs_ready", "retriever_ready", "FlightRetriever")

\* main: rag_pipeline = ADSBRAGPipeline(groq_api_key, retriever, model)
CreatePipeline == MainStep("retriever_ready", "rag_ready", "ADSBRAGPipeline")

\* main: rag_pipeline.interactive_chat()
EnterChat == MainStep("rag_ready", "chatting", "interactive_chat")

\* The interactive loop ends and main returns.
LeaveChat ==
    /\ pc = "chatting"
    /\ pc' = "exited"
    /\ exitStatus' = Some(0)
    /\ UNCHANGED <<env, dotenv, dataFile, apiKey, calls>>
    /\ UNCHANGED <<genVars, filterVars, harvestVars, storeVars>>

-----------------------------------------------------------------------------
(* The specifications.                                                     *)

\* generate_filenames on its own.
GenSpecInit == GenInit /\ FilterIdle /\ HarvestIdle /\ StoreIdle /\ ChatIdle
GenNext == Generate
GenSpec == GenSpecInit /\ [][GenNext]_vars

\* filter_by_region on its own.
FilterSpecInit == FilterInit /\ GenIdle /\ HarvestIdle /\ StoreIdle /\ ChatIdle
FilterNext == Filter
FilterSpec == FilterSpecInit /\ [][FilterNext]_vars

\* The harvester's main.
HarvestSpecInit == HarvestInit /\ GenIdle /\ FilterIdle /\ StoreIdle /\ ChatIdle
HarvestNext ==
    \/ \E n \in 0..MaxFiles : HarvestStart(n)
    \/ HarvestIterate
    \/ HarvestSummary
HarvestSpec == HarvestSpecInit /\ [][HarvestNext]_vars

\* The harvester's main, which runs on until it ends: nothing in the loop waits
\* on anything but the request, and that is bounded by its timeout.
HarvestFairSpec == HarvestSpec /\ WF_vars(HarvestNext)

\* The embedding store under any calls of its methods.
StoreSpecInit == StoreInit /\ GenIdle /\ FilterIdle /\ HarvestIdle /\ ChatIdle
StoreNext ==
    \/ \E docs \in DocLists : \E embeddings \in MatricesFor(docs) :
          SaveStore(docs, embeddings)
    \/ LoadStore
    \/ \E q \in QueryVecs, k \in 1..MaxK : QueryStore(q, k)
    \/ \E f \in Files : RemoveFile(f)
StoreSpec == StoreSpecInit /\ [][StoreNext]_vars

\* The chat tool's main.
ChatSpecInit == ChatInit /\ GenIdle /\ FilterIdle /\ HarvestIdle
ChatNext ==
    \/ SetupEnvironment
    \/ InitializeVectorstore
    \/ CreateRetriever
    \/ CreatePipeline
    \/ EnterChat
    \/ LeaveChat
ChatSpec == ChatSpecInit /\ [][ChatNext]_vars

-----------------------------------------------------------------------------
(* The harvester's properties.                                             *)

\* The loop has fetched the first hIdx filenames, each once and in order, and
\* no exception has left download_file or process_and_save.
FetchedInOrder ==
    /\ hPc # "crashed"
    /\ Len(fetched) = hIdx
    /\ fetched = SubSeq(hFiles, 1, hIdx)
    /\ Cardinality(Range(fetched)) = Len(fetched)
    /\ hPc = "summary" => fetched = hFiles

\* C3: every generated filename is fetched exactly once, in generation order,
\* whatever happened to the files before it; nothing propagates out of the
\* loop, and the run reaches the summary.
C3_EveryFileFetchedOnce == []FetchedInOrder /\ <>(hPc = "summary")

ProcessingFailures == {"corrupt_gzip", "invalid_json", "failed_to_process"}

\* C3's case: the summary is reached after a download failed and the last
\* file's processing failed.
C3_Witness ==
    /\ hPc = "summary"
    /\ Len(fetched) >= 2
    /\ fetched = hFiles
    /\ failed >= 1
    /\ last.proc.log \in ProcessingFailures

\* The content begins with the bytes 0x1f 0x8b.
StartsWithMagic(c) == Len(c) >= 2 /\ c[1] = 31 /\ c[2] = 139

\* C4: process_and_save tries to decompress exactly the contents that start
\* with 0x1f 0x8b; any other content is itself what json.loads is given.
C4_DecompressIffMagic ==
    Truthy(last.content) =>
        /\ last.proc.decompress_tried <=> StartsWithMagic(Val(last.content))
        /\ ~StartsWithMagic(Val(last.content)) => last.proc.json_input = last.content

\* C4's case: a content whose first byte alone is a magic byte was parsed as it
\* is, with no decompression.
C4_Witness ==
    /\ Truthy(last.content)
    /\ Val(last.content)[1] = 31
    /\ ~StartsWithMagic(Val(last.content))
    /\ ~last.proc.decompress_tried
    /\ last.proc.json_input = last.content

CountersAgree ==
    hPc \in {"loop", "summary"} =>
        /\ successful + failed = hIdx
        /\ written <= successful
        /\ hPc = "summary" => successful + failed = Len(hFiles)

\* An iteration counts the file as failed exactly when download_file returned
\* no content, as successful otherwise, and writes at most one file, none
\* when the processing failed before the write.
IterationCounts ==
    hIdx' = hIdx + 1 =>
        /\ (failed' = failed + 1 /\ successful' = successful) <=> last'.content = None
        /\ (successful' = successful + 1 /\ failed' = failed) <=> last'.content # None
        /\ written' = written + (IF last'.proc.wrote THEN 1 ELSE 0)
        /\ last'.proc.log \in {"corrupt_gzip", "invalid_json"} => written' = written

\* C10: successful + failed is the number of files processed, N at the
\* summary; failed counts exactly the downloads without content; the output
\* files written never outnumber successful.
C10_CountersAccount == []CountersAgree /\ [][IterationCounts]_vars

\* C10's case: at the summary a file is counted successful though none was
\* written for it, beside a failed download.
C10_Witness ==
    /\ hPc = "summary"
    /\ failed >= 1
    /\ successful >= 1
    /\ written < successful
    /\ last.content # None /\ ~last.proc.wrote

-----------------------------------------------------------------------------
(* The embedding store's properties.                                       *)

AllFilesExist == \A f \in Files : fs[f] # None

\* C5: load_store on a directory missing one of the three files returns
\* (None, None, None) without raising, reads no file, and leaves index and
\* documents as they were.
C5_LoadOfIncompleteStore ==
    [][(op'.name = "load_store" /\ ~AllFilesExist) =>
          /\ op'.out.ret = <<None, None, None>>
          /\ op'.out.raised = "none"
          /\ op'.out.reads = {}
          /\ index' = index
          /\ documents' = documents]_vars

\* C5's case: a store that holds an index in memory was loaded from a
\* directory where some files exist and one is missing.
C5_Witness ==
    /\ op.name = "load_store"
    /\ ~AllFilesExist
    /\ \E f \in Files : fs[f] # None
    /\ index # None /\ documents # None
    /\ op.out.ret = <<None, None, None>>

\* load_store was the last call, after a completed save whose files are all
\* still there.
LoadedAfterSave == op.name = "load_store" /\ lastSave # None /\ AllFilesExist

\* The loaded triple is that of the save, equal in length and aligned.
RoundTrip(save, ret) ==
    /\ ret[1] # None /\ ret[2] # None /\ ret[3] # None
    /\ Val(ret[2]) = save.documents
    /\ Val(ret[3]) = save.embeddings
    /\ Val(ret[1]) = save.embeddings.rows
    /\ Len(Val(ret[2])) = Len(Val(ret[3]).rows)
    /\ Len(Val(ret[3]).rows) = ntotal(Val(ret[1]))

\* C6 as stated: after any completed saves, a load returns the last save's
\* index, documents and embeddings, all three of one length.
C6_RoundTripAnySave == LoadedAfterSave => RoundTrip(Val(lastSave), op.out.ret)

\* C6 amended: the same when the last save was given as many embedding rows as
\* documents.
C6_RoundTripAlignedSave ==
    (/\ LoadedAfterSave
     /\ Len(Val(lastSave).documents) = Len(Val(lastSave).embeddings.rows))
    => RoundTrip(Val(lastSave), op.out.ret)

\* C6's case: a load after the save of two different documents with their
\* embeddings.
C6_Witness ==
    /\ LoadedAfterSave
    /\ Len(Val(lastSave).documents) = 2
    /\ Val(lastSave).documents[1] # Val(lastSave).documents[2]
    /\ Val(lastSave).embeddings = create_embeddings(Val(lastSave).documents)
    /\ Val(op.out.ret[2]) = Val(lastSave).documents

\* The positions from i on of the slots of found whose label is a position of
\* a list of n documents.
RECURSIVE ValidSlots(_, _, _)
ValidSlots(found, n, i) ==
    IF i > Len(found) THEN <<>>
    ELSE (IF 0 <= found[i].label /\ found[i].label < n THEN <<i>> ELSE <<>>)
         \o ValidSlots(found, n, i + 1)

\* C7, for a store of at least one document whose index holds one vector per
\* document: query_store
\* returns, in ascending distance, the pair (documents[i], d) of every result
\* slot whose label i is a position of the document list and nothing for any
\* other slot, so at most min(k, ntotal) pairs.
C7_QueryDropsInvalidLabels ==
    (/\ op.name = "query_store"
     /\ index # None
     /\ Len(Val(documents)) >= 1
     /\ Len(Val(documents)) = ntotal(Val(index))) =>
        /\ op.out.raised = "none"
        /\ LET found == op.out.found
               docs == Val(documents)
               pairs == Val(op.out.ret)
               valid == ValidSlots(found, Len(docs), 1)
           IN  /\ Len(pairs) = Len(valid)
               /\ \A j \in 1..Len(valid) :
                    pairs[j] = <<docs[found[valid[j]].label + 1],
                                 found[valid[j]].distance>>
               /\ \A j \in 1..(Len(pairs) - 1) : pairs[j][2] <= pairs[j + 1][2]
               /\ Len(pairs) <= Min(op.args[2], ntotal(Val(index)))

-----------------------------------------------------------------------------
(* The chat tool's properties.                                             *)

\* What os.getenv gives main: the environment's value, else the .env file's.
EffectiveKey == IF env = None THEN dotenv ELSE env

KeyMissing == EffectiveKey = None \/ Val(EffectiveKey) = ""

AfterSetup ==
    pc # "start" =>
        IF KeyMissing
        THEN /\ pc = "exited" /\ exitStatus = Some(1)
             /\ calls = <<"setup_environment">>
             /\ apiKey = None
             /\ index = None /\ documents = None /\ op.name = "none"
        ELSE /\ apiKey = EffectiveKey
             /\ exitStatus # Some(1)
             /\ calls[1] = "setup_environment"
             /\ pc = "setup_done" \/ (Len(calls) >= 2 /\ calls[2] = "initialize_vectorstore")

\* C8: without a key main exits with status 1 in setup_environment and does
\* nothing else (no store loaded or created, no data file generated, no
\* retriever, no pipeline, no chat); with a key setup_environment returns it
\* and main goes on to initialize the vector store.
C8_MissingKeyIsFatal ==
    []AfterSetup /\ [][KeyMissing => UNCHANGED <<fs, dataFile, index, documents>>]_vars

\* C8's case: main has exited with status 1 on an empty variable in the
\* environment, though the .env file holds a key.
C8_Witness ==
    /\ pc = "exited" /\ exitStatus = Some(1)
    /\ env = Some("") /\ dotenv = Some("gsk_file")

\* initialize_vectorstore has returned.
StoreInitialized == op.name = "initialize_vectorstore" /\ op.out.raised = "none"

\* C9: whatever files the store directory held, once initialize_vectorstore
\* has returned all three exist and the store's index and documents are set
\* and of one length; the store is created exactly when a file was missing,
\* and a store that loaded is not saved again, no file rewritten.
C9_MissingStoreIsCreated ==
    StoreInitialized =>
        /\ AllFilesExist
        /\ index # None /\ documents # None
        /\ Len(Val(documents)) = ntotal(Val(index))
        /\ op.out.created <=> (\E f \in Files : op.args[1][f] = None)
        /\ ~op.out.created =>
              /\ fs = op.args[1]
              /\ op.out.writes = {}
              /\ "save_store" \notin Range(calls)

\* C9's case: the directory held some of the files but not all, and the store
\* was created.
C9_Witness ==
    /\ StoreInitialized
    /\ op.out.created
    /\ \E f \in Files : op.args[1][f] # None
    /\ \E f \in Files : op.args[1][f] = None
    /\ AllFilesExist
    /\ "save_store" \in Range(calls)

=============================================================================
